---- MODULE Spec2Model ----
(***************************************************************************)
(* Clips API (src/base): the request-resilience and throttling layer.      *)
(*                                                                         *)
(*   - rate_limit (main.py): the sliding-window limiter over the shared    *)
(*     module-level map request_counts, run by the worker threads that     *)
(*     serve the synchronous endpoints;                                    *)
(*   - get_db (main.py) and get_db (database.py): the two session          *)
(*     generators. Their consumer may, at every yield, resume with next(), *)
(*     throw the endpoint's exception in, or close() the generator (a      *)
(*     cancelled request, or the context manager giving up on a generator  *)
(*     that yields again);                                                 *)
(*   - the service: one request at a time through log_requests, the        *)
(*     route's Depends(get_db), rate_limit's wrapper, the endpoint         *)
(*     (stream_clip, create_clip, health_check, get_metrics) and back. An  *)
(*     exception of the endpoint is either thrown into get_db at its yield *)
(*     or answered first, as the framework release in use does.            *)
(*                                                                         *)
(* Time is counted in whole ticks of time.time(); the limits 50 / 10 and   *)
(* the 300 s window of the endpoints are scaled down to ReadLimit /        *)
(* CreateLimit / Window.                                                   *)
(***************************************************************************)
EXTENDS Integers, Sequences, FiniteSets, TLC

\* ---------------------------------------------------------------- bounds
MaxTime == 3          \* last tick of the clock
MaxRequests == 4      \* rate-limited requests issued in one behaviour
ReadLimit == 2        \* stands for max_requests=50 of the read endpoints
CreateLimit == 1      \* stands for max_requests=10 of POST /clips
Window == 3           \* stands for window=300
MaxThreads == 2       \* requests served at once, each by its own worker thread
MaxServed == 2        \* requests that pass through the whole service in one behaviour
MaxClips == 2         \* rows of the clips table at start-up
PageLimit == 3        \* stands for limit=100 of crud.get_clips
PopularCap == 2       \* stands for the cap 20 of get_popular_clips
MaxStored == 4        \* rows of the largest clips table that is listed
MaxPlays == 2         \* largest play_count of a listed row

VARIABLES
    clock,            \* time.time() as last read by a request
    request_counts,   \* main.request_counts: client_ip -> list of timestamps
    wrapper,          \* per request: the frame of rate_limit.wrapper in its worker thread
    creatable,        \* environment: create_database_engine() would succeed now
    engine,           \* database.engine, bound once at import
    gen,              \* the frame of the get_db generator of the current request
    sessions,         \* the sessions the current get_db call has opened
    probes,           \* outcome of each SELECT 1 of the current call, in order
    log,              \* logger.error entries of the current call
    sleeps,           \* time.sleep delays of the current call, in tenths of a second
    calls,            \* what the consumer has done to the generator since its first next()
    http,             \* the request inside log_requests: its position, inputs and outcome
    clips,            \* the clips table: id -> row
    metrics,          \* the prometheus registry that generate_latest() exposes
    served,           \* responses sent so far
    workers,          \* per worker thread: the frame of its stream_clip call
    popular           \* the call of get_popular_clips: its limit and what it returned

limiterVars == <<clock, request_counts, wrapper>>
storeVars == <<creatable, engine, gen, sessions, probes, log, sleeps, calls>>
clipVars == <<workers, popular>>
serviceVars == <<http, clips, metrics, served, workers, popular>>
vars == <<clock, request_counts, wrapper, creatable, engine, gen, sessions, probes, log,
          sleeps, calls, http, clips, metrics, served, workers, popular>>

\* ------------------------------------------------------------ rate limiter
Requests == 1..MaxRequests
NoClient == "<none>"                    \* request.client is None
Hosts == {"A"}
RequestClients == Hosts \cup {NoClient}
Identities == Hosts \cup {"unknown"}

\* mutant: POST /clips configured like the read endpoints
RateLimitsUniform ==
    [e \in {"get_clips", "stream_clip", "get_clip_stats", "create_clip",
            "get_popular_clips", "get_database_stats"} |->
        [max_requests |-> ReadLimit, window |-> Window]]

\* the limits the decorated endpoints are configured with
RateLimits ==
    [ get_clips          |-> [max_requests |-> ReadLimit,   window |-> Window],
      stream_clip        |-> [max_requests |-> ReadLimit,   window |-> Window],
      get_clip_stats     |-> [max_requests |-> ReadLimit,   window |-> Window],
      create_clip        |-> [max_requests |-> CreateLimit, window |-> Window],
      get_popular_clips  |-> [max_requests |-> ReadLimit,   window |-> Window],
      get_database_stats |-> [max_requests |-> ReadLimit,   window |-> Window] ]

LimitedEndpoints == {"stream_clip", "create_clip"}

\* client_ip = request.client.host if request.client else "unknown"
ClientIp(client) == IF client # NoClient THEN client ELSE "unknown"

\* mutant: a timestamp exactly one window old is kept
PruneInclusive(times, now, window) ==
    SelectSeq(times, LAMBDA req_time : now - req_time <= window)

\* [req_time for req_time in times if now - req_time < window]
Prune(times, now, window) == SelectSeq(times, LAMBDA req_time : now - req_time < window)

\* a request that has not arrived yet
NewFrame == [pc |-> "new", client |-> NoClient, endpoint |-> "stream_clip",
             client_ip |-> "unknown", now |-> 0, pruned |-> <<>>,
             before |-> <<>>, status |-> 0]

LimiterInit ==
    /\ clock = 0
    /\ request_counts = [ip \in Identities |-> <<>>]
    /\ wrapper = [r \in Requests |-> NewFrame]

\* requests are numbered in the order they enter the wrapper
Arrives(r) ==
    /\ wrapper[r].pc = "new"
    /\ \A q \in Requests : q < r => wrapper[q].pc # "new"

\* lines 84-86: request r enters the wrapper and reads the clock, which has
\* advanced to now since the previous request read it
WrapperEnter(r, client, endpoint, now) ==
    /\ Arrives(r)
    /\ now >= clock
    /\ clock' = now
    /\ wrapper' = [wrapper EXCEPT ![r] =
            [NewFrame EXCEPT !.pc = "prune", !.client = client, !.endpoint = endpoint,
                             !.client_ip = ClientIp(client), !.now = now]]
    /\ UNCHANGED <<request_counts, storeVars>>

\* lines 89-92, right-hand side: the list comprehension over the current list
WrapperPrune(r) ==
    /\ wrapper[r].pc = "prune"
    /\ wrapper' = [wrapper EXCEPT ![r].pc = "store",
                                  ![r].before = request_counts[wrapper[r].client_ip],
                                  ![r].pruned = Prune(request_counts[wrapper[r].client_ip],
                                                      wrapper[r].now,
                                                      RateLimits[wrapper[r].endpoint].window)]
    /\ UNCHANGED <<clock, request_counts, storeVars>>

\* mutant: one list shared by every client
StoredCountsShared(counts, client_ip, pruned) == [ip \in DOMAIN counts |-> pruned]

\* request_counts[client_ip] = pruned
StoredCounts(counts, client_ip, pruned) == [counts EXCEPT ![client_ip] = pruned]

\* line 89, the assignment of the pruned list
WrapperStore(r) ==
    /\ wrapper[r].pc = "store"
    /\ request_counts' = StoredCounts(request_counts, wrapper[r].client_ip, wrapper[r].pruned)
    /\ wrapper' = [wrapper EXCEPT ![r].pc = "check", ![r].pruned = <<>>]
    /\ UNCHANGED <<clock, storeVars>>

\* mutant: off by one, the limit itself is still admitted
OverLimitStrict(times, max_requests) == Len(times) > max_requests

\* line 95: len(request_counts[client_ip]) >= max_requests
OverLimit(times, max_requests) == Len(times) >= max_requests

\* mutant: the request is recorded before the check, so a rejected one counts too
WrapperCheckRecording(r) ==
    /\ wrapper[r].pc = "check"
    /\ IF OverLimit(request_counts[wrapper[r].client_ip],
                    RateLimits[wrapper[r].endpoint].max_requests)
       THEN /\ wrapper' = [wrapper EXCEPT ![r].pc = "done", ![r].status = 429]
            /\ request_counts' = [request_counts EXCEPT
                                      ![wrapper[r].client_ip] = Append(@, wrapper[r].now)]
       ELSE /\ wrapper' = [wrapper EXCEPT ![r].pc = "append"]
            /\ request_counts' = request_counts
    /\ UNCHANGED <<clock, storeVars>>

\* lines 95-99: the check; over the limit raises HTTPException(429)
WrapperCheck(r) ==
    /\ wrapper[r].pc = "check"
    /\ IF OverLimit(request_counts[wrapper[r].client_ip],
                    RateLimits[wrapper[r].endpoint].max_requests)
       THEN wrapper' = [wrapper EXCEPT ![r].pc = "done", ![r].status = 429]
       ELSE wrapper' = [wrapper EXCEPT ![r].pc = "append"]
    /\ UNCHANGED <<clock, request_counts, storeVars>>

\* request_counts[client_ip].append(now)
RecordedCounts(counts, client_ip, now) == [counts EXCEPT ![client_ip] = Append(@, now)]

\* lines 102-104: the request is recorded and handed to the endpoint
WrapperAppend(r) ==
    /\ wrapper[r].pc = "append"
    /\ request_counts' = RecordedCounts(request_counts, wrapper[r].client_ip, wrapper[r].now)
    /\ wrapper' = [wrapper EXCEPT ![r].pc = "done", ![r].status = 200]
    /\ UNCHANGED <<clock, storeVars>>

InWrapper(r) == wrapper[r].pc \notin {"new", "done"}

\* the worker threads, one per request, interleave freely
LimiterNext ==
    \/ \E r \in 1..MaxThreads, c \in RequestClients, e \in LimitedEndpoints, now \in 0..MaxTime :
            WrapperEnter(r, c, e, now) /\ UNCHANGED serviceVars
    \/ \E r \in Requests : WrapperPrune(r) /\ UNCHANGED serviceVars
    \/ \E r \in Requests : WrapperStore(r) /\ UNCHANGED serviceVars
    \/ \E r \in Requests : WrapperCheck(r) /\ UNCHANGED serviceVars
    \/ \E r \in Requests : WrapperAppend(r) /\ UNCHANGED serviceVars

\* one request at a time: a request enters only when no other is in the wrapper
SeqNext ==
    \/ \E r \in Requests, c \in RequestClients, e \in LimitedEndpoints, now \in 0..MaxTime :
            /\ \A q \in Requests : ~InWrapper(q)
            /\ WrapperEnter(r, c, e, now)
            /\ UNCHANGED serviceVars
    \/ \E r \in Requests : WrapperPrune(r) /\ UNCHANGED serviceVars
    \/ \E r \in Requests : WrapperStore(r) /\ UNCHANGED serviceVars
    \/ \E r \in Requests : WrapperCheck(r) /\ UNCHANGED serviceVars
    \/ \E r \in Requests : WrapperAppend(r) /\ UNCHANGED serviceVars


\* ------------------------------------------------------------ store handles
max_retries == 3
base_delay == 5                         \* 0.5 s, in tenths of a second
None == "None"
ProbeErrors == {"timeout", "refused"}   \* what SELECT 1 raises when the store is down
BusinessErrors == {"HTTPException(404)", "ValueError"}  \* what an endpoint raises
GetDbFunctions == {"main", "database"}
NoError == [kind |-> "none", text |-> ""]

\* mutant: a session factory is bound although the engine is missing
SessionLocalBound == "sessionmaker"

\* database.py line 62: the session factory exists only if the engine does
SessionLocal == IF engine # None THEN "sessionmaker" ELSE None

IdleGen == [fn |-> "main", pc |-> "idle", db |-> 0, retry_count |-> 0, e |-> "",
            error |-> NoError, ready_at_call |-> FALSE]

Finished == gen.pc \in {"returned", "raised", "closed"}
FreshSession == [open |-> TRUE, closes |-> 0, rollbacks |-> 0]

\* db.close()
Close(ss, db) == [ss EXCEPT ![db].open = FALSE, ![db].closes = @ + 1]
\* if db: db.close()
CloseIfSet(ss, db) == IF db # 0 THEN Close(ss, db) ELSE ss
\* if db: db.rollback()
RollbackIfSet(ss, db) == IF db # 0 THEN [ss EXCEPT ![db].rollbacks = @ + 1] ELSE ss

\* database.py lines 54-62: the import-time initialisation; a failure of
\* create_database_engine leaves engine = None
StoreInit ==
    /\ creatable \in BOOLEAN
    /\ engine = IF creatable THEN "engine" ELSE None
    /\ gen = IdleGen
    /\ sessions = <<>>
    /\ probes = <<>>
    /\ log = <<>>
    /\ sleeps = <<>>
    /\ calls = <<>>

\* environment: the store becomes reachable or unreachable for create_engine
StoreEnvironment ==
    /\ creatable' = ~creatable
    /\ UNCHANGED <<engine, gen, sessions, probes, log, sleeps, calls, limiterVars>>

\* a request calls get_db() and the consumer's first next() starts the generator
GetDbCall(fn) ==
    /\ gen.pc = "idle" \/ Finished
    /\ gen' = [IdleGen EXCEPT !.fn = fn, !.pc = "start", !.ready_at_call = creatable]
    /\ sessions' = <<>>
    /\ probes' = <<>>
    /\ log' = <<>>
    /\ sleeps' = <<>>
    /\ calls' = <<>>
    /\ UNCHANGED <<creatable, engine, limiterVars>>

\* ---- main.get_db
\* lines 43-63 up to the yield: open a session and probe it once
MainAttempt(ok, err) ==
    /\ gen.fn = "main" /\ gen.pc = "start"
    /\ IF SessionLocal = None
       THEN \* SessionLocal() raises TypeError; db is still None
            /\ gen' = [gen EXCEPT !.pc = "raised", !.e = "TypeError",
                                  !.error = [kind |-> "HTTPException(503)",
                                             text |-> "TypeError"]]
            /\ log' = Append(log, [msg |-> "connection failed in get_db", n |-> 0,
                                   e |-> "TypeError"])
            /\ UNCHANGED <<sessions, probes>>
       ELSE LET db == Len(sessions) + 1
                opened == Append(sessions, FreshSession)
            IN  IF ok
                THEN /\ gen' = [gen EXCEPT !.pc = "yield48", !.db = db]
                     /\ sessions' = opened
                     /\ probes' = Append(probes, "ok")
                     /\ log' = log
                ELSE /\ gen' = [gen EXCEPT !.pc = "raised", !.db = db, !.e = err,
                                           !.error = [kind |-> "HTTPException(503)",
                                                      text |-> err]]
                     /\ sessions' = Close(RollbackIfSet(opened, db), db)
                     /\ probes' = Append(probes, err)
                     /\ log' = Append(log, [msg |-> "connection failed in get_db",
                                            n |-> 0, e |-> err])
    /\ UNCHANGED <<creatable, engine, sleeps, calls, limiterVars>>

\* the consumer resumes the generator at line 48 with next(): finally closes
MainNext ==
    /\ gen.fn = "main" /\ gen.pc = "yield48"
    /\ gen' = [gen EXCEPT !.pc = "returned"]
    /\ sessions' = CloseIfSet(sessions, gen.db)
    /\ calls' = Append(calls, "next")
    /\ UNCHANGED <<creatable, engine, probes, log, sleeps, limiterVars>>

\* the consumer throws the endpoint's exception in at line 48: lines 49-69
MainThrow(exc) ==
    /\ gen.fn = "main" /\ gen.pc = "yield48"
    /\ gen' = [gen EXCEPT !.pc = "raised", !.e = exc,
                          !.error = [kind |-> "HTTPException(503)", text |-> exc]]
    /\ log' = Append(log, [msg |-> "connection failed in get_db", n |-> 0, e |-> exc])
    /\ sessions' = CloseIfSet(RollbackIfSet(sessions, gen.db), gen.db)
    /\ calls' = Append(calls, "throw")
    /\ UNCHANGED <<creatable, engine, probes, sleeps, limiterVars>>

\* the consumer closes the generator at line 48: GeneratorExit is no Exception,
\* so only the finally clause runs
MainClose ==
    /\ gen.fn = "main" /\ gen.pc = "yield48"
    /\ gen' = [gen EXCEPT !.pc = "closed"]
    /\ sessions' = CloseIfSet(sessions, gen.db)
    /\ calls' = Append(calls, "close")
    /\ UNCHANGED <<creatable, engine, probes, log, sleeps, limiterVars>>

\* ---- database.get_db
\* lines 67-72
DbStart ==
    /\ gen.fn = "database" /\ gen.pc = "start"
    /\ IF engine = None
       THEN gen' = [gen EXCEPT !.pc = "raised",
                               !.error = [kind |-> "Exception(engine not initialized)",
                                          text |-> ""]]
       ELSE gen' = [gen EXCEPT !.pc = "loop", !.db = 0, !.retry_count = 0]
    /\ UNCHANGED <<creatable, engine, sessions, probes, log, sleeps, calls, limiterVars>>

\* lines 74-78: one pass of the loop up to the yield or the raise of SELECT 1.
\* (The loop condition never ends the loop: retry_count reaches max_retries only
\* in the handler, which raises.)
DbAttempt(ok, err) ==
    /\ gen.fn = "database" /\ gen.pc = "loop"
    /\ gen.retry_count < max_retries
    /\ sessions' = Append(sessions, FreshSession)
    /\ IF ok
       THEN /\ gen' = [gen EXCEPT !.pc = "yield78", !.db = Len(sessions) + 1]
            /\ probes' = Append(probes, "ok")
       ELSE /\ gen' = [gen EXCEPT !.pc = "except", !.db = Len(sessions) + 1, !.e = err]
            /\ probes' = Append(probes, err)
    /\ UNCHANGED <<creatable, engine, log, sleeps, calls, limiterVars>>

\* mutant: the handler never gives up
ExhaustedNever(retry_count) == FALSE

\* mutant: gives up one attempt early
ExhaustedEarly(retry_count) == retry_count + 1 >= max_retries

\* mutant: allows one attempt more
ExhaustedLate(retry_count) == retry_count > max_retries

\* line 89: retry_count >= max_retries
Exhausted(retry_count) == retry_count >= max_retries

\* mutant: the same delay after every failed attempt
DelayFlat(retry_count) == base_delay

\* line 93: time.sleep(0.5 * retry_count)
Delay(retry_count) == base_delay * retry_count

\* lines 81-93: the handler of the loop's try
DbExcept ==
    /\ gen.fn = "database" /\ gen.pc = "except"
    /\ LET retry_count == gen.retry_count + 1
       IN  /\ log' = Append(log, [msg |-> "connection attempt failed",
                                  n |-> retry_count, e |-> gen.e])
           /\ sessions' = CloseIfSet(sessions, gen.db)
           /\ IF Exhausted(retry_count)
              THEN /\ gen' = [gen EXCEPT !.pc = "raised", !.retry_count = retry_count,
                                         !.db = 0,
                                         !.error = [kind |-> "Exception(connection failed after max_retries attempts)",
                                                    text |-> gen.e]]
                   /\ sleeps' = sleeps
              ELSE /\ gen' = [gen EXCEPT !.pc = "loop", !.retry_count = retry_count,
                                         !.db = 0]
                   /\ sleeps' = Append(sleeps, Delay(retry_count))
    /\ UNCHANGED <<creatable, engine, probes, calls, limiterVars>>

\* the consumer resumes at line 78 with next(): break, then lines 95-97 yield
\* the same session again
DbNext78 ==
    /\ gen.fn = "database" /\ gen.pc = "yield78"
    /\ gen' = [gen EXCEPT !.pc = IF gen.db # 0 THEN "yield97" ELSE "returned"]
    /\ calls' = Append(calls, "next")
    /\ UNCHANGED <<creatable, engine, sessions, probes, log, sleeps, limiterVars>>

\* the consumer throws the endpoint's exception in at line 78: the loop's
\* handler catches it like a failed probe
DbThrow78(exc) ==
    /\ gen.fn = "database" /\ gen.pc = "yield78"
    /\ gen' = [gen EXCEPT !.pc = "except", !.e = exc]
    /\ calls' = Append(calls, "throw")
    /\ UNCHANGED <<creatable, engine, sessions, probes, log, sleeps, limiterVars>>

\* the consumer closes the generator at line 78: GeneratorExit is no Exception
\* and leaves the function through the loop, past no finally clause
DbClose78 ==
    /\ gen.fn = "database" /\ gen.pc = "yield78"
    /\ gen' = [gen EXCEPT !.pc = "closed"]
    /\ calls' = Append(calls, "close")
    /\ UNCHANGED <<creatable, engine, sessions, probes, log, sleeps, limiterVars>>

\* the consumer resumes at line 97 with next(): lines 103-105
DbNext97 ==
    /\ gen.fn = "database" /\ gen.pc = "yield97"
    /\ gen' = [gen EXCEPT !.pc = "returned"]
    /\ sessions' = CloseIfSet(sessions, gen.db)
    /\ calls' = Append(calls, "next")
    /\ UNCHANGED <<creatable, engine, probes, log, sleeps, limiterVars>>

\* the consumer throws in at line 97: lines 98-105 roll back, re-raise, close
DbThrow97(exc) ==
    /\ gen.fn = "database" /\ gen.pc = "yield97"
    /\ gen' = [gen EXCEPT !.pc = "raised", !.e = exc,
                          !.error = [kind |-> "passed through", text |-> exc]]
    /\ log' = Append(log, [msg |-> "session error", n |-> 0, e |-> exc])
    /\ sessions' = CloseIfSet(RollbackIfSet(sessions, gen.db), gen.db)
    /\ calls' = Append(calls, "throw")
    /\ UNCHANGED <<creatable, engine, probes, sleeps, limiterVars>>

\* the consumer closes the generator at line 97: only the finally clause runs
DbClose97 ==
    /\ gen.fn = "database" /\ gen.pc = "yield97"
    /\ gen' = [gen EXCEPT !.pc = "closed"]
    /\ sessions' = CloseIfSet(sessions, gen.db)
    /\ calls' = Append(calls, "close")
    /\ UNCHANGED <<creatable, engine, probes, log, sleeps, limiterVars>>

StoreNext ==
    \/ StoreEnvironment /\ UNCHANGED serviceVars
    \/ \E fn \in GetDbFunctions : GetDbCall(fn) /\ UNCHANGED serviceVars
    \/ \E ok \in BOOLEAN, err \in ProbeErrors : MainAttempt(ok, err) /\ UNCHANGED serviceVars
    \/ MainNext /\ UNCHANGED serviceVars
    \/ \E exc \in BusinessErrors : MainThrow(exc) /\ UNCHANGED serviceVars
    \/ MainClose /\ UNCHANGED serviceVars
    \/ DbStart /\ UNCHANGED serviceVars
    \/ \E ok \in BOOLEAN, err \in ProbeErrors : DbAttempt(ok, err) /\ UNCHANGED serviceVars
    \/ DbExcept /\ UNCHANGED serviceVars
    \/ DbNext78 /\ UNCHANGED serviceVars
    \/ \E exc \in BusinessErrors : DbThrow78(exc) /\ UNCHANGED serviceVars
    \/ DbClose78 /\ UNCHANGED serviceVars
    \/ DbNext97 /\ UNCHANGED serviceVars
    \/ \E exc \in BusinessErrors : DbThrow97(exc) /\ UNCHANGED serviceVars
    \/ DbClose97 /\ UNCHANGED serviceVars

\* ---------------------------------------------------------------- service
\* endpoints declared with db: Session = Depends(get_db); both are rate limited
StoreBacked == {"stream_clip", "create_clip"}
Endpoints == StoreBacked \cup {"health_check", "get_metrics"}
ClipIds == 1..(MaxClips + 1)
\* the ClipCreate bodies that matter to create_clip's checks
ClipInputs == {"valid", "bad_audio_url", "bad_duration"}
\* what generate_latest() raises when a collector fails
CollectorErrors == {"ValueError: collector failed", "OSError: metrics directory"}

\* the HTTPExceptions raised by the wrapper and by the endpoints
HTTPExceptions ==
    [ rate_limited  |-> [status_code |-> 429,
                         detail |-> "Rate limit exceeded. Please try again later."],
      not_found     |-> [status_code |-> 404, detail |-> "Clip with id {clip_id} not found"],
      bad_audio_url |-> [status_code |-> 400,
                         detail |-> "Audio URL must be a valid HTTP/HTTPS URL"],
      bad_duration  |-> [status_code |-> 400,
                         detail |-> "Duration must be in format like '30s', '45s', etc."],
      stream_failed |-> [status_code |-> 500, detail |-> "Failed to stream clip"],
      create_failed |-> [status_code |-> 500, detail |-> "Failed to create clip"] ]

\* main.get_db lines 55-62: the HTTPException raised for the caught exception e
StoreUnavailableError(e) ==
    [status_code |-> 503,
     detail |-> [error |-> "Database connection failed", message |-> e,
                 troubleshooting |-> "Check /debug/database for more details"]]

NoResponse == [status |-> 0, body |-> [empty |-> TRUE], headers |-> {}, location |-> ""]

\* no exception handler is registered on app: an HTTPException is answered
\* by the framework's default handler with {"detail": exc.detail}
ExceptionResponse(exc) ==
    [NoResponse EXCEPT !.status = exc.status_code, !.body = [detail |-> exc.detail]]

\* mutant: the 500 of the middleware without a timestamp
ErrorResponseBare(e, now) ==
    [NoResponse EXCEPT !.status = 500,
                       !.body = [error |-> "Internal server error", message |-> e]]

\* log_requests lines 132-140
ErrorResponse(e, now) ==
    [NoResponse EXCEPT !.status = 500,
                       !.body = [error |-> "Internal server error", message |-> e,
                                 timestamp |-> now, platform |-> "Vercel"]]

\* log_requests lines 121-124
ProcessHeaders == {"X-Process-Time", "X-Platform", "X-Database"}

AudioUrl(id) == <<"https://cdn/clip", id>>
NewClip(id) == [play_count |-> 0, audio_url |-> AudioUrl(id)]

\* crud.get_clip: the rows with this id, of which first() takes the first; the
\* empty sequence stands for its None
get_clip(table, clip_id) == IF clip_id \in DOMAIN table THEN <<table[clip_id]>> ELSE <<>>

\* crud.increment_play_count
increment_play_count(table, clip_id) ==
    IF clip_id \in DOMAIN table
    THEN [table EXCEPT ![clip_id].play_count = @ + 1]
    ELSE table

IdleHttp == [pc |-> "idle", endpoint |-> "health_check", client |-> NoClient, clip_id |-> 0,
             clip |-> "valid", r |-> 0, raised |-> "none", escaped |-> "none",
             result |-> NoResponse, response |-> NoResponse, clips_before |-> <<>>]

\* the table as seeded; nothing in main.py registers or updates a Counter or a
\* Histogram, so the registry holds no request metric
ServiceInit ==
    /\ http = IdleHttp
    /\ clips = [id \in 1..MaxClips |-> NewClip(id)]
    /\ metrics = [http_requests_total |-> 0, duration_observations |-> 0]
    /\ served = 0

\* log_requests lines 111-113: the middleware takes the time and calls the route
Receive(endpoint, client, clip_id, clip) ==
    /\ http.pc \in {"idle", "responded"}
    /\ served < MaxServed
    /\ clip_id \in IF endpoint = "stream_clip" THEN ClipIds ELSE {0}
    /\ endpoint = "create_clip" \/ clip = "valid"
    /\ endpoint \in StoreBacked \/ client = NoClient
    /\ http' = [IdleHttp EXCEPT !.pc = "route", !.endpoint = endpoint, !.client = client,
                                !.clip_id = clip_id, !.clip = clip, !.clips_before = clips]
    /\ UNCHANGED <<clips, metrics, served, limiterVars, storeVars>>

\* the route resolves db = Depends(get_db) before it calls the decorated endpoint
Resolve ==
    /\ http.pc = "route" /\ http.endpoint \in StoreBacked
    /\ GetDbCall("main")
    /\ http' = [http EXCEPT !.pc = "depends"]
    /\ UNCHANGED <<clips, metrics, served>>

\* get_db runs to its yield, or raises HTTPException(503) and the route ends
Probe ==
    /\ http.pc = "depends"
    /\ \E ok \in BOOLEAN, err \in ProbeErrors : MainAttempt(ok, err)
    /\ http' = [http EXCEPT !.pc = IF gen'.pc = "yield48" THEN "wrapper" ELSE "respond"]
    /\ UNCHANGED <<clips, metrics, served>>

\* the route calls the endpoint, that is rate_limit's wrapper, with db in kwargs
Enter ==
    /\ http.pc = "wrapper" /\ http.r = 0
    /\ \E r \in Requests, now \in 0..MaxTime :
          /\ WrapperEnter(r, http.client, http.endpoint, now)
          /\ http' = [http EXCEPT !.r = r]
    /\ UNCHANGED <<clips, metrics, served>>

InLimiter == http.pc = "wrapper" /\ http.r # 0

\* wrapper line 99 raises out of the endpoint; line 104 calls the function
Limiter ==
    /\ InLimiter
    /\ \/ WrapperPrune(http.r) /\ UNCHANGED http
       \/ WrapperStore(http.r) /\ UNCHANGED http
       \/ /\ WrapperCheck(http.r)
          /\ http' = IF wrapper'[http.r].status = 429
                     THEN [http EXCEPT !.pc = "exit", !.raised = "rate_limited"]
                     ELSE http
       \/ WrapperAppend(http.r) /\ http' = [http EXCEPT !.pc = "endpoint"]
    /\ UNCHANGED <<clips, metrics, served>>

Returned(status, body, location) ==
    [NoResponse EXCEPT !.status = status, !.body = body, !.location = location]

\* stream_clip lines 562-586; fails: a statement of the session raises
stream_clip(fails) ==
    /\ http.pc = "endpoint" /\ http.endpoint = "stream_clip"
    /\ IF fails
       THEN /\ http' = [http EXCEPT !.pc = "exit", !.raised = "stream_failed"]
            /\ clips' = clips
       ELSE IF get_clip(clips, http.clip_id) = <<>>
       THEN /\ http' = [http EXCEPT !.pc = "exit", !.raised = "not_found"]
            /\ clips' = clips
       ELSE /\ clips' = increment_play_count(clips, http.clip_id)
            /\ http' = [http EXCEPT !.pc = "exit",
                           !.result = Returned(302, [empty |-> TRUE],
                                               get_clip(clips, http.clip_id)[1].audio_url)]
    /\ UNCHANGED <<metrics, served, limiterVars, storeVars>>

\* create_clip lines 645-670 and crud.create_clip
create_clip(fails) ==
    /\ http.pc = "endpoint" /\ http.endpoint = "create_clip"
    /\ IF http.clip # "valid"
       THEN /\ http' = [http EXCEPT !.pc = "exit", !.raised = http.clip]
            /\ clips' = clips
       ELSE IF fails
       THEN /\ http' = [http EXCEPT !.pc = "exit", !.raised = "create_failed"]
            /\ clips' = clips
       ELSE /\ clips' = Append(clips, NewClip(Len(clips) + 1))
            /\ http' = [http EXCEPT !.pc = "exit",
                           !.result = Returned(200, NewClip(Len(clips) + 1), "")]
    /\ UNCHANGED <<metrics, served, limiterVars, storeVars>>

\* health_check lines 181-191: no dependency, no limiter
health_check ==
    /\ http.pc = "route" /\ http.endpoint = "health_check"
    /\ http' = [http EXCEPT !.pc = "respond",
                   !.result = Returned(200, [status |-> "healthy", timestamp |-> clock], "")]
    /\ UNCHANGED <<clips, metrics, served, limiterVars, storeVars>>

\* get_metrics lines 175-178: generate_latest() is called outside any try, so
\* what it raises leaves the route
get_metrics(ok, e) ==
    /\ http.pc = "route" /\ http.endpoint = "get_metrics"
    /\ http' = IF ok
               THEN [http EXCEPT !.pc = "respond", !.result = Returned(200, metrics, "")]
               ELSE [http EXCEPT !.pc = "respond", !.escaped = e]
    /\ UNCHANGED <<clips, metrics, served, limiterVars, storeVars>>

\* the endpoint has returned: the route resumes get_db with next()
ExitNormal ==
    /\ http.pc = "exit" /\ http.raised = "none"
    /\ MainNext
    /\ http' = [http EXCEPT !.pc = "respond"]
    /\ UNCHANGED <<clips, metrics, served>>

\* the endpoint has raised: the route throws the exception into get_db
ExitThrow ==
    /\ http.pc = "exit" /\ http.raised # "none"
    /\ MainThrow(http.raised)
    /\ http' = [http EXCEPT !.pc = "respond"]
    /\ UNCHANGED <<clips, metrics, served>>

\* the endpoint has raised an HTTPException and the framework in use answers it
\* before it leaves the dependency, which it then resumes with next()
ExitHandled ==
    /\ http.pc = "exit" /\ http.raised # "none"
    /\ MainNext
    /\ http' = [http EXCEPT !.pc = "respond"]
    /\ UNCHANGED <<clips, metrics, served>>

\* what call_next returns: the answer to the HTTPException of get_db, else to
\* the one of the endpoint, else what the endpoint returned
RouteResponse ==
    IF http.endpoint \in StoreBacked /\ gen.pc = "raised"
    THEN ExceptionResponse(StoreUnavailableError(gen.error.text))
    ELSE IF http.raised # "none"
    THEN ExceptionResponse(HTTPExceptions[http.raised])
    ELSE http.result

\* log_requests lines 113-140: the response is annotated and returned, or the
\* exception that left call_next is answered with the 500 body
Respond ==
    /\ http.pc = "respond"
    /\ http' = [http EXCEPT !.pc = "responded",
                   !.response = IF http.escaped # "none"
                                THEN ErrorResponse(http.escaped, clock)
                                ELSE [RouteResponse EXCEPT !.headers = ProcessHeaders]]
    /\ served' = served + 1
    /\ UNCHANGED <<clips, metrics, limiterVars, storeVars>>

ServiceNext ==
    \/ \E endpoint \in Endpoints, client \in RequestClients, clip_id \in {0} \cup ClipIds,
          clip \in ClipInputs : Receive(endpoint, client, clip_id, clip) /\ UNCHANGED clipVars
    \/ Resolve /\ UNCHANGED clipVars
    \/ Probe /\ UNCHANGED clipVars
    \/ Enter /\ UNCHANGED clipVars
    \/ Limiter /\ UNCHANGED clipVars
    \/ \E fails \in BOOLEAN : stream_clip(fails) /\ UNCHANGED clipVars
    \/ \E fails \in BOOLEAN : create_clip(fails) /\ UNCHANGED clipVars
    \/ health_check /\ UNCHANGED clipVars
    \/ \E ok \in BOOLEAN, e \in CollectorErrors : get_metrics(ok, e) /\ UNCHANGED clipVars
    \/ ExitNormal /\ UNCHANGED clipVars
    \/ ExitThrow /\ UNCHANGED clipVars
    \/ ExitHandled /\ UNCHANGED clipVars
    \/ Respond /\ UNCHANGED clipVars

\* ------------------------------------------------- concurrent stream requests
\* stream_clip run by several worker threads at once, each with a session of
\* its own, after the limiter has admitted the request
Workers == 1..MaxThreads
IdleWorker == [pc |-> "idle", clip_id |-> 0, play_count |-> 0, status |-> 0]

IdlePopular == [pc |-> "idle", limit |-> 0, status |-> 0, result |-> <<>>]

ClipInit ==
    /\ workers = [t \in Workers |-> IdleWorker]
    /\ popular = IdlePopular

\* worker t is handed a request for clip_id
StreamCall(t, clip_id) ==
    /\ workers[t].pc = "idle"
    /\ workers' = [workers EXCEPT ![t] = [IdleWorker EXCEPT !.pc = "get_clip",
                                                           !.clip_id = clip_id]]
    /\ UNCHANGED <<clips, popular, http, metrics, served, limiterVars, storeVars>>

\* stream_clip lines 563-569: the row is loaded into the session of t, or 404
StreamGetClip(t) ==
    /\ workers[t].pc = "get_clip"
    /\ workers' = IF get_clip(clips, workers[t].clip_id) = <<>>
                  THEN [workers EXCEPT ![t].pc = "done", ![t].status = 404]
                  ELSE [workers EXCEPT ![t].pc = "increment",
                            ![t].play_count = get_clip(clips, workers[t].clip_id)[1].play_count]
    /\ UNCHANGED <<clips, popular, http, metrics, served, limiterVars, storeVars>>

\* crud.increment_play_count lines 20-21: play_count += 1 on the object the
\* session has loaded, and commit writes the resulting value to the row
Committed(table, clip_id, loaded) ==
    [table EXCEPT ![clip_id].play_count = loaded + 1]

\* stream_clip line 572, crud.increment_play_count: the query of line 18 returns
\* the object already loaded in the session of t
StreamIncrement(t) ==
    /\ workers[t].pc = "increment"
    /\ clips' = Committed(clips, workers[t].clip_id, workers[t].play_count)
    /\ workers' = [workers EXCEPT ![t].pc = "redirect"]
    /\ UNCHANGED <<popular, http, metrics, served, limiterVars, storeVars>>

\* stream_clip line 578: the 302
StreamRedirect(t) ==
    /\ workers[t].pc = "redirect"
    /\ workers' = [workers EXCEPT ![t].pc = "done", ![t].status = 302]
    /\ UNCHANGED <<clips, popular, http, metrics, served, limiterVars, storeVars>>

StreamNext ==
    \/ \E t \in Workers, clip_id \in ClipIds : StreamCall(t, clip_id)
    \/ \E t \in Workers : StreamGetClip(t)
    \/ \E t \in Workers : StreamIncrement(t)
    \/ \E t \in Workers : StreamRedirect(t)

\* ------------------------------------------------------------ popular clips
Min(a, b) == IF a <= b THEN a ELSE b

\* the tables that are listed: up to MaxStored rows, any play counts
StoredTables ==
    UNION { { [id \in 1..n |-> [play_count |-> plays[id], audio_url |-> AudioUrl(id)]] :
                plays \in [1..n -> 0..MaxPlays] } : n \in 0..MaxStored }

\* crud.get_clips: query.offset(skip).limit(limit).all(), rows in storage order
get_clips(table, skip, limit) ==
    [k \in 1..(Min(skip + limit, Len(table)) - Min(skip, Len(table))) |->
        [id |-> skip + k, play_count |-> table[skip + k].play_count]]

\* the first row with the largest play_count
FirstMost(rows) ==
    CHOOSE i \in DOMAIN rows :
        /\ \A j \in DOMAIN rows : rows[j].play_count <= rows[i].play_count
        /\ \A j \in 1..(i - 1) : rows[j].play_count < rows[i].play_count

Without(rows, i) == SubSeq(rows, 1, i - 1) \o SubSeq(rows, i + 1, Len(rows))

\* sorted(clips, key=lambda x: x.play_count, reverse=True): a stable sort
RECURSIVE sorted(_)
sorted(rows) ==
    IF rows = <<>> THEN <<>>
    ELSE <<rows[FirstMost(rows)]>> \o sorted(Without(rows, FirstMost(rows)))

\* get_popular_clips lines 689-693, for limit >= 0
popular_clips(table, limit) ==
    LET capped == Min(limit, PopularCap)
        listed == sorted(get_clips(table, 0, PageLimit))
    IN  SubSeq(listed, 1, Min(capped, Len(listed)))

\* get_popular_clips lines 687-701; fails: the query raises and the handler
\* answers 500
get_popular_clips(limit, fails) ==
    /\ popular.pc = "idle"
    /\ popular' = IF fails
                  THEN [pc |-> "done", limit |-> limit, status |-> 500, result |-> <<>>]
                  ELSE [pc |-> "done", limit |-> limit, status |-> 200,
                        result |-> popular_clips(clips, limit)]
    /\ UNCHANGED <<clips, workers, http, metrics, served, limiterVars, storeVars>>

PopularNext ==
    \E limit \in 0..(PopularCap + 1), fails \in BOOLEAN : get_popular_clips(limit, fails)

\* the listing is taken of a table of any size and content
PopularStart ==
    /\ LimiterInit /\ StoreInit /\ creatable
    /\ http = IdleHttp
    /\ metrics = [http_requests_total |-> 0, duration_observations |-> 0]
    /\ served = 0
    /\ ClipInit
    /\ clips \in StoredTables

PopularSpec == PopularStart /\ [][PopularNext]_vars

Init == LimiterInit /\ StoreInit /\ ServiceInit /\ ClipInit

\* the limiter does not read the store: its runs start with the engine created
LimiterStart == Init /\ creatable

LimiterSpec == LimiterStart /\ [][LimiterNext]_vars

LimiterSeqSpec == LimiterStart /\ [][SeqNext]_vars

StoreSpec == Init /\ [][StoreNext]_vars

\* the thread that runs the generator is scheduled, SELECT 1 returns or raises,
\* and time.sleep returns: every step of get_db up to its yield or raise is taken
StoreFairSpec ==
    /\ StoreSpec
    /\ WF_vars(\E ok \in BOOLEAN, err \in ProbeErrors :
                    MainAttempt(ok, err) /\ UNCHANGED serviceVars)
    /\ WF_vars(DbStart /\ UNCHANGED serviceVars)
    /\ WF_vars(\E ok \in BOOLEAN, err \in ProbeErrors :
                    DbAttempt(ok, err) /\ UNCHANGED serviceVars)
    /\ WF_vars(DbExcept /\ UNCHANGED serviceVars)

ServiceSpec == Init /\ [][ServiceNext]_vars

\* the stream requests do not read the engine: their runs start with it created
StreamSpec == LimiterStart /\ [][StreamNext]_vars

\* ------------------------------------------------------------------ claims
Limit(r) == RateLimits[wrapper[r].endpoint]
Decided(r) == wrapper[r].pc = "done"
Admitted(r) == wrapper[r].status = 200
Rejected(r) == wrapper[r].status = 429
SeqMin(times) == CHOOSE m \in {times[k] : k \in DOMAIN times} :
                    \A k \in DOMAIN times : m <= times[k]
Occurrences(times, v) == Cardinality({k \in DOMAIN times : times[k] = v})

\* requests i..j of one client, all to endpoints with one configuration, that
\* start on a window holding no unexpired timestamp and span less than the window
SameClient(i, k) == wrapper[k].client_ip = wrapper[i].client_ip
Burst(i, j) ==
    /\ i <= j /\ Decided(i) /\ Decided(j) /\ SameClient(i, j)
    /\ Prune(wrapper[i].before, wrapper[i].now, Limit(i).window) = <<>>
    /\ \A k \in i..j : SameClient(i, k) => Limit(k) = Limit(i)
    /\ wrapper[j].now - wrapper[i].now < Limit(i).window
BurstSize(i, j) == Cardinality({k \in i..j : SameClient(i, k)})

\* C1: starting from an empty window, the first N sequential requests of a client
\* to an endpoint limited to (N, W) that fall within a span shorter than W are all
\* admitted, and the (N+1)-th within that span is rejected with 429.
C1_BurstOfNThenReject ==
    \A i, j \in Requests :
        Burst(i, j) =>
            /\ BurstSize(i, j) <= Limit(i).max_requests => Admitted(j)
            /\ BurstSize(i, j) = Limit(i).max_requests + 1 => Rejected(j)

C1_Witness ==
    \E i, j \in Requests :
        /\ Burst(i, j) /\ wrapper[i].endpoint = "stream_clip"
        /\ BurstSize(i, j) = ReadLimit + 1 /\ Rejected(j)
        /\ \A k \in i..(j - 1) : SameClient(i, k) /\ Admitted(k)

\* C2: the window slides: a request that finds its client's window full (N
\* timestamps) at a time at least W after the earliest of them is admitted.
C2_WindowSlides ==
    \A r \in Requests :
        ( /\ Decided(r)
          /\ Len(wrapper[r].before) = Limit(r).max_requests
          /\ wrapper[r].now - SeqMin(wrapper[r].before) >= Limit(r).window )
        => Admitted(r)

\* the scenario of the spec, scaled to the window: requests at 0, 1, 2 are
\* admitted, admitted, rejected, and the one at Window is admitted again
C2_Witness ==
    /\ \A r \in 1..4 : Decided(r) /\ wrapper[r].client = "A"
                                  /\ wrapper[r].endpoint = "stream_clip"
    /\ wrapper[1].now = 0 /\ wrapper[2].now = 1 /\ wrapper[3].now = 2
    /\ wrapper[4].now = Window
    /\ Admitted(1) /\ Admitted(2) /\ Rejected(3) /\ Admitted(4)
    /\ Len(wrapper[4].before) = ReadLimit

\* C3: under any interleaving the prune-check-append sequence is atomic: no
\* admitted timestamp is lost while it is younger than the window, and the
\* requests admitted under one configuration (N, W) for one client within an
\* interval shorter than W never number more than N.
NoLostTimestamp ==
    \A r \in Requests :
        (Admitted(r) /\ clock - wrapper[r].now < Limit(r).window) =>
            Occurrences(request_counts[wrapper[r].client_ip], wrapper[r].now)
                >= Cardinality({q \in Requests : /\ Admitted(q) /\ SameClient(r, q)
                                                 /\ wrapper[q].now = wrapper[r].now})
AdmittedWithinLimit ==
    \A S \in SUBSET Requests :
        ( /\ S # {}
          /\ \A q \in S : Admitted(q)
          /\ \A p, q \in S : /\ SameClient(p, q) /\ Limit(p) = Limit(q)
                             /\ wrapper[p].now - wrapper[q].now < Limit(p).window )
        => \A q \in S : Cardinality(S) <= Limit(q).max_requests
C3_AtomicCheckAndRecord == NoLostTimestamp /\ AdmittedWithinLimit

\* the identity a request is accounted to
IdentityOf(r) == IF wrapper[r].client = NoClient THEN "unknown" ELSE wrapper[r].client

\* C4: windows of distinct client identities are isolated: a step changes the
\* window of an identity only if it is a step of a request of that identity, and
\* a window holds only timestamps of admitted requests of its own identity.
C4_Isolation ==
    /\ [][\A ip \in Identities :
             request_counts'[ip] # request_counts[ip] =>
                 \E r \in Requests : wrapper'[r] # wrapper[r] /\ IdentityOf(r) = ip]_vars
    /\ [](\A ip \in Identities : \A k \in DOMAIN request_counts[ip] :
             \E r \in Requests : /\ IdentityOf(r) = ip
                                 /\ Admitted(r)
                                 /\ wrapper[r].now = request_counts[ip][k])

\* two requests of distinct identities overlap in the wrapper, one already recorded
C4_Witness ==
    \E p, q \in Requests :
        /\ IdentityOf(p) # IdentityOf(q)
        /\ Admitted(p) /\ wrapper[q].pc = "append"
        /\ wrapper[q].now <= wrapper[p].now
        /\ request_counts[IdentityOf(p)] # <<>>

FailedProbes == Cardinality({i \in DOMAIN probes : probes[i] # "ok"})
NoProbeSucceeded == \A i \in DOMAIN probes : probes[i] # "ok"
AttemptLogs == SelectSeq(log, LAMBDA entry : entry.msg = "connection attempt failed")
OpenSessions == {db \in DOMAIN sessions : sessions[db].open}
Cancelled == calls # <<>> /\ calls[1] = "close"
StoreUnavailable ==
    /\ gen.pc = "raised"
    /\ gen.error.kind \in {"HTTPException(503)", "Exception(engine not initialized)",
                           "Exception(connection failed after max_retries attempts)"}

\* C5: a store-backed endpoint (session from main.get_db) recovers a transient
\* store failure locally: the request is answered 503 for a failing probe only
\* once max_retries probes have failed.
C5_Only503AfterRetries ==
    (gen.fn = "main" /\ StoreUnavailable /\ engine # None /\ calls = <<>>)
        => FailedProbes >= max_retries

\* C6: database.get_db on a store whose probe fails k < max_retries times and then
\* succeeds hands an open session to the caller, having logged exactly k failed
\* attempts, one error entry per failed attempt; it does not give up before
\* max_retries probes have failed.
C6_HandleAfterKFailures ==
    /\ (gen.fn = "database" /\ gen.pc = "yield78" /\ calls = <<>>) =>
            /\ FailedProbes = Len(probes) - 1 /\ probes[Len(probes)] = "ok"
            /\ FailedProbes < max_retries
            /\ gen.db \in OpenSessions
            /\ OpenSessions = {gen.db}
            /\ Len(log) = FailedProbes
            /\ \A k \in DOMAIN log :
                  log[k] = [msg |-> "connection attempt failed", n |-> k, e |-> probes[k]]
    /\ (gen.fn = "database" /\ calls = <<>> /\ probes # <<>>
            /\ probes[Len(probes)] = "ok") => gen.pc = "yield78"
    /\ (gen.fn = "database" /\ calls = <<>> /\ gen.pc = "raised" /\ engine # None) =>
            FailedProbes >= max_retries

\* two failures, then success: a handle and two retry entries in the log
C6_Witness ==
    /\ gen.fn = "database" /\ gen.pc = "yield78" /\ calls = <<>>
    /\ probes = <<"timeout", "refused", "ok">>
    /\ Len(AttemptLogs) = 2 /\ gen.db \in OpenSessions

\* C7: database.get_db on a store whose probe always fails raises the
\* store-unavailable error, carrying the text of the last underlying error, after
\* exactly max_retries probe attempts, never more and never fewer, and hands out
\* no session.
C7_RaisesAfterMaxRetries ==
    (gen.fn = "database" /\ NoProbeSucceeded) =>
        /\ Len(probes) <= max_retries
        /\ calls = <<>>
        /\ (Len(probes) = max_retries => gen.pc \in {"except", "raised"})
        /\ (gen.pc = "raised" /\ engine # None) =>
              /\ Len(probes) = max_retries
              /\ gen.error = [kind |-> "Exception(connection failed after max_retries attempts)",
                              text |-> probes[Len(probes)]]
              /\ OpenSessions = {}
              /\ Len(log) = max_retries

C7_Witness ==
    /\ gen.fn = "database" /\ gen.pc = "raised" /\ NoProbeSucceeded
    /\ Len(probes) = max_retries
    /\ probes[1] # probes[max_retries]
    /\ gen.error.text = probes[max_retries]

\* C8: every session opened by get_db is closed exactly once by the time the
\* request has finished, on every exit path (normal return, an exception of the
\* business operation, a failed probe); none is closed twice, none is left open.
C8_ClosedExactlyOnce ==
    /\ \A db \in DOMAIN sessions : sessions[db].closes <= 1
    /\ (Finished /\ ~Cancelled) => \A db \in DOMAIN sessions : sessions[db].closes = 1

\* C9: if the request is cancelled while get_db holds an open session (the
\* generator is closed while suspended at a yield), the session is still closed.
C9_ClosedOnCancel ==
    (Finished /\ Cancelled) => OpenSessions = {}

\* C10: when the engine is None after a failed initialisation, acquiring a
\* handle re-initialises once and fails as store-unavailable only if the engine
\* still cannot be created; a request arriving after the store has become
\* reachable obtains a handle.
C10_ReinitialisesWhenNotReady ==
    (StoreUnavailable /\ engine = None /\ probes = <<>>) => ~gen.ready_at_call

\* the last request that has entered the wrapper
Latest(r) == wrapper[r].pc # "new" /\ \A q \in Requests : q > r => wrapper[q].pc = "new"
Checked(r) == wrapper[r].pc \in {"check", "append", "done"}
\* what the request found in its client's window, without the expired timestamps
Unexpired(r) ==
    SelectSeq(wrapper[r].before, LAMBDA t : wrapper[r].now - t < Limit(r).window)

\* C19: after a rate-limit check at time now with window W, whether it admits or
\* rejects, the window of the checked identity holds no timestamp t with
\* now - t >= W: it holds exactly the timestamps found that are younger than W
\* (one exactly W old is dropped), followed by now if the request was admitted.
C19_NoExpiredAfterCheck ==
    \A r \in Requests :
        (Latest(r) /\ Checked(r)) =>
            /\ \A k \in DOMAIN request_counts[wrapper[r].client_ip] :
                  wrapper[r].now - request_counts[wrapper[r].client_ip][k] < Limit(r).window
            /\ request_counts[wrapper[r].client_ip] =
                  IF Admitted(r) THEN Append(Unexpired(r), wrapper[r].now)
                                 ELSE Unexpired(r)

\* the check found one timestamp exactly Window old and a younger one: the
\* first is gone, the second is kept
C19_Witness ==
    \E r \in Requests :
        /\ Latest(r) /\ wrapper[r].pc = "check"
        /\ \E i, j \in DOMAIN wrapper[r].before :
              /\ wrapper[r].now - wrapper[r].before[i] = Window
              /\ wrapper[r].now - wrapper[r].before[j] < Window
              /\ request_counts[wrapper[r].client_ip] = <<wrapper[r].before[j]>>

\* the admitted requests of r's client before r that are younger than the window
AdmittedBefore(r) ==
    {q \in Requests : /\ q < r /\ SameClient(r, q) /\ Admitted(q)
                      /\ wrapper[r].now - wrapper[q].now < Limit(r).window}

\* C20: a rejected request is not recorded: the 429 is raised without appending
\* now and without handing the request to the endpoint, so the decision on a
\* request depends on the admitted requests only, and rejected requests never
\* postpone the next admission.
C20_RejectedNotRecorded ==
    \A r \in Requests :
        /\ (Decided(r) /\ Rejected(r) /\ Latest(r)) =>
                request_counts[wrapper[r].client_ip] = Unexpired(r)
        /\ Decided(r) =>
                (Admitted(r) <=> Cardinality(AdmittedBefore(r)) < Limit(r).max_requests)
        /\ \A k \in DOMAIN request_counts[wrapper[r].client_ip] :
                \E q \in Requests : /\ SameClient(r, q) /\ Admitted(q)
                                    /\ wrapper[q].now = request_counts[wrapper[r].client_ip][k]

\* admitted at 0, rejected at 1 and at 2, admitted again as soon as the
\* request of time 0 has expired
C20_Witness ==
    /\ \A r \in 1..4 : Decided(r) /\ wrapper[r].client = "A"
                                  /\ wrapper[r].endpoint = "create_clip"
    /\ wrapper[1].now = 0 /\ wrapper[2].now = 1 /\ wrapper[3].now = 2
    /\ wrapper[4].now = Window
    /\ Admitted(1) /\ Rejected(2) /\ Rejected(3) /\ Admitted(4)

\* the request that log_requests has answered, and the answer
Responded == http.pc = "responded"
Status == http.response.status
Body == http.response.body
\* the request went through rate_limit's wrapper, with this decision
LimiterAdmitted == http.r # 0 /\ Admitted(http.r)
LimiterRejected == http.r # 0 /\ Rejected(http.r)
\* get_db of the request in flight has run (the route resolved its dependency)
Resolved == http.endpoint \in StoreBacked /\ http.pc \notin {"idle", "route"}
\* get_db raised before it yielded: no handle was acquired
NoHandle == Resolved /\ gen.pc = "raised" /\ calls = <<>>
Envelope == {"error", "message", "timestamp"}

\* C11: a failed initialisation is not fatal: when create_database_engine failed
\* at start-up the engine and the session factory are None, no session is ever
\* opened or probed, every request to a store-backed endpoint is answered 503
\* "Database connection failed" without reaching the limiter or the endpoint,
\* and the endpoints without a store dependency answer 200.
C11_DegradedMode ==
    /\ ~creatable => engine = None
    /\ engine = None =>
          /\ SessionLocal = None
          /\ sessions = <<>> /\ probes = <<>>
          /\ http.endpoint \in StoreBacked =>
                /\ http.pc \in {"route", "depends", "respond", "responded"}
                /\ Responded => /\ Status = 503
                                /\ Body.detail.error = "Database connection failed"
          /\ (Responded /\ http.endpoint = "health_check") =>
                Status = 200 /\ Body.status = "healthy"
          /\ (Responded /\ http.endpoint = "get_metrics" /\ http.escaped = "none") =>
                Status = 200

\* without an engine a store-backed request has been answered 503, and the
\* next request, to /health, is answered 200
C11_Witness ==
    /\ engine = None /\ served = 2
    /\ gen.pc = "raised" /\ gen.error.kind = "HTTPException(503)"
    /\ Responded /\ http.endpoint = "health_check" /\ Status = 200

\* C12: every request, on every exit path, increments exactly one request
\* counter and records exactly one duration observation: the counter total
\* equals the number of requests answered.
C12_MetricsOncePerRequest ==
    /\ metrics.http_requests_total = served
    /\ metrics.duration_observations = served

\* C13: the rate-limit decision precedes store acquisition: a session is opened
\* only for a request the limiter has admitted, a request rejected with 429 has
\* opened and probed no session, and a request answered 503 store-unavailable
\* has been recorded in its client's window.
C13_LimiterBeforeStore ==
    Resolved =>
        /\ sessions # <<>> => LimiterAdmitted
        /\ LimiterRejected => (sessions = <<>> /\ probes = <<>>)
        /\ (Responded /\ Status = 503) => LimiterAdmitted

\* the status the outcome of the request selects
ExpectedStatus ==
    IF LimiterRejected THEN 429
    ELSE IF NoHandle THEN 503
    ELSE IF http.raised # "none" THEN HTTPExceptions[http.raised].status_code
    ELSE IF http.escaped # "none" THEN 500
    ELSE http.result.status

\* C14: the response status is selected by the outcome of the request alone:
\* 429 for a limiter rejection, 503 when no handle could be acquired, the 404 /
\* 400 of the endpoint unchanged, 500 for any other failure; an error raised
\* while a session is held is not turned into 503 by get_db.
C14_StatusByOutcome == Responded => Status = ExpectedStatus

\* C15: an exception that leaves the route is answered by log_requests with a
\* 500 whose JSON body has the fields error, message and timestamp; it is never
\* re-raised.
C15_EscapedBecomes500 ==
    http.escaped # "none" =>
        /\ http.pc \in {"respond", "responded"}
        /\ Responded => /\ Status = 500
                        /\ Envelope \subseteq DOMAIN Body
                        /\ Body.error = "Internal server error"
                        /\ Body.timestamp = clock

C15_Witness ==
    /\ Responded /\ http.endpoint = "get_metrics" /\ http.escaped \in CollectorErrors
    /\ Status = 500 /\ served = 2

\* C16: every error response (status 400 and above) has a JSON body that is the
\* envelope with the fields error, message and timestamp.
C16_UniformEnvelope ==
    (Responded /\ Status >= 400) => Envelope \subseteq DOMAIN Body

\* C17: the 500 answering an unexpected failure does not depend on the text of
\* the exception: its message is generic and is not the exception text.
C17_GenericMessage ==
    (Responded /\ Status = 500 /\ http.escaped # "none") =>
        /\ Body.message # http.escaped
        /\ Body.message \notin CollectorErrors

\* C18: an admitted stream request for an existing clip, served without a store
\* failure, increases the play_count of that clip by exactly 1, changes no other
\* row and answers 302 to the clip's audio_url; one for a missing id answers 404
\* and changes nothing; no play_count ever decreases.
C18_StreamCountsOnePlay ==
    /\ \A id \in DOMAIN http.clips_before :
          /\ id \in DOMAIN clips
          /\ clips[id].play_count >= http.clips_before[id].play_count
    /\ ( /\ Responded /\ http.endpoint = "stream_clip" /\ LimiterAdmitted
         /\ http.raised # "stream_failed" ) =>
          IF http.clip_id \in DOMAIN http.clips_before
          THEN /\ Status = 302
               /\ http.response.location = http.clips_before[http.clip_id].audio_url
               /\ clips = [http.clips_before EXCEPT ![http.clip_id].play_count = @ + 1]
          ELSE Status = 404 /\ clips = http.clips_before

\* the admitted requests of r's client before r, to any endpoint, that are
\* younger than the window when r is checked
UnexpiredAdmitted(r) ==
    {q \in Requests : /\ q < r /\ wrapper[q].client_ip = wrapper[r].client_ip
                      /\ wrapper[q].status = 200
                      /\ wrapper[r].now - wrapper[q].now < Window}

\* C21: the window is keyed by the client identity only and shared by all
\* rate-limited endpoints, each applying its own max_requests to it: a request
\* to POST /clips is admitted iff its client has fewer than CreateLimit
\* unexpired admitted requests of any kind, the window found by a request holds
\* the admitted requests to every endpoint, and run one at a time the requests
\* never make a window longer than the largest configured limit.
C21_SharedWindow ==
    /\ \A ip \in Identities : Len(request_counts[ip]) <= ReadLimit
    /\ \A r \in Requests :
          /\ (Decided(r) /\ wrapper[r].endpoint = "create_clip") =>
                (Admitted(r) <=> Cardinality(UnexpiredAdmitted(r)) < CreateLimit)
          /\ (Decided(r) /\ wrapper[r].endpoint = "stream_clip") =>
                (Admitted(r) <=> Cardinality(UnexpiredAdmitted(r)) < ReadLimit)
          /\ (Decided(r) /\ Latest(r)) =>
                Len(request_counts[wrapper[r].client_ip]) =
                    Cardinality(UnexpiredAdmitted(r)) + (IF Admitted(r) THEN 1 ELSE 0)

\* a POST /clips is rejected on account of admitted stream requests alone, and
\* a stream request of the same client is still admitted after it
C21_Witness ==
    \E r, q \in Requests :
        /\ r < q /\ SameClient(r, q)
        /\ wrapper[r].endpoint = "create_clip" /\ Rejected(r)
        /\ UnexpiredAdmitted(r) # {}
        /\ \A k \in UnexpiredAdmitted(r) : wrapper[k].endpoint = "stream_clip"
        /\ wrapper[q].endpoint = "stream_clip" /\ Admitted(q)
        /\ wrapper[q].now - wrapper[r].now < Window
        /\ UnexpiredAdmitted(q) = UnexpiredAdmitted(r)

\* C22: in database.get_db the delay slept after the i-th failed attempt, for
\* i < max_retries, is base_delay * i (0.5 s, then 1.0 s); nothing is slept after
\* the final failed attempt; the session of a failed attempt is closed and
\* dropped before the next attempt opens a new one.
C22_LinearBackoff ==
    gen.fn = "database" =>
        /\ \A i \in DOMAIN sleeps : sleeps[i] = base_delay * i
        /\ Len(sleeps) = IF gen.retry_count >= max_retries THEN max_retries - 1
                                                            ELSE gen.retry_count
        /\ Len(sleeps) < max_retries
        /\ gen.pc = "loop" => (OpenSessions = {} /\ gen.db = 0)
        /\ \A db \in DOMAIN sessions : db < Len(sessions) => ~sessions[db].open

\* three failed probes: 0.5 s and 1.0 s were slept, nothing after the third
C22_Witness ==
    /\ gen.fn = "database" /\ gen.pc = "raised" /\ NoProbeSucceeded
    /\ Len(probes) = max_retries /\ Len(sessions) = max_retries
    /\ sleeps = <<5, 10>>
    /\ OpenSessions = {}

Acquiring == gen.pc \in {"start", "loop", "except"}
Acquired == gen.pc \in {"yield48", "yield78"}

\* C23: acquisition always terminates: whatever the probes do, a call of get_db
\* that is acquiring eventually yields a handle or raises, having made at most
\* max_retries probe attempts and slept at most max_retries - 1 times.
C23_AcquisitionTerminates ==
    /\ [](Len(probes) <= max_retries /\ Len(sleeps) <= max_retries - 1)
    /\ [](Acquiring => gen.retry_count < max_retries)
    /\ (Acquiring ~> (Acquired \/ gen.pc = "raised"))

\* the handle is yielded by the last attempt allowed, after every sleep allowed
C23_Witness ==
    /\ gen.fn = "database" /\ Acquired /\ calls = <<>>
    /\ Len(probes) = max_retries /\ Len(sleeps) = max_retries - 1
    /\ gen.retry_count = max_retries - 1

Suspended == gen.pc \in {"yield48", "yield78", "yield97"}

\* C24: an invocation of get_db hands a session to its consumer at most once:
\* once the consumer has resumed the generator after the first yield, by next()
\* or by throwing an exception in, the generator finishes and is never found
\* suspended at a yield again.
C24_YieldsAtMostOnce ==
    calls # <<>> => ~Suspended

\* C25: in database.get_db an exception of the business operation, thrown in
\* while the yielded session is held, is not treated as a connection failure: it
\* is not sent to the retry handler, counts as no failed attempt, causes no sleep
\* and no new session, and leaves get_db unchanged after the session has been
\* rolled back and closed.
C25_BusinessErrorPassesThrough ==
    (gen.fn = "database" /\ calls # <<>> /\ calls[1] = "throw") =>
        /\ gen.pc = "raised"
        /\ gen.error = [kind |-> "passed through", text |-> gen.e]
        /\ gen.retry_count = FailedProbes
        /\ Len(AttemptLogs) = FailedProbes
        /\ Len(sleeps) = FailedProbes
        /\ Len(sessions) = Len(probes)
        /\ sessions[Len(sessions)] = [open |-> FALSE, closes |-> 1, rollbacks |-> 1]

Quiescent == \A t \in Workers : workers[t].pc \in {"idle", "done"}
Answered302(id) == {t \in Workers : workers[t].status = 302 /\ workers[t].clip_id = id}

\* C26: no play-count update is lost: when the stream requests served
\* concurrently have all been answered, the play_count of every clip is its
\* initial value (0) plus the number of stream requests for it answered 302.
C26_NoLostPlay ==
    Quiescent =>
        \A id \in DOMAIN clips : clips[id].play_count = Cardinality(Answered302(id))

Returned200 == popular.pc = "done" /\ popular.status = 200
ResultIds == {popular.result[k].id : k \in DOMAIN popular.result}

\* C27: GET /clips/popular with limit L returns min(L, cap, number of stored
\* clips) distinct stored clips in non-increasing play_count order, and they are
\* the most played of all stored clips: no stored clip outside the result has a
\* greater play_count than a clip in the result, however many clips are stored.
C27_MostPlayed ==
    Returned200 =>
        /\ Len(popular.result) = Min(popular.limit, Min(PopularCap, Len(clips)))
        /\ Cardinality(ResultIds) = Len(popular.result)
        /\ \A k \in DOMAIN popular.result :
              /\ popular.result[k].id \in DOMAIN clips
              /\ popular.result[k].play_count = clips[popular.result[k].id].play_count
              /\ k > 1 => popular.result[k - 1].play_count >= popular.result[k].play_count
              /\ \A id \in DOMAIN clips \ ResultIds :
                    clips[id].play_count <= popular.result[k].play_count

====
